---- MODULE Spec2Model ----
(***************************************************************************)
(* PDF-to-PNG conversion pipeline: the Pub/Sub push endpoint               *)
(* (Docker/pdf-to-png.js, app.post('/')) and the direct storage trigger    *)
(* (createImage).  Object keys are sequences of one-character strings, so  *)
(* that the suffix test, the filename pattern and the key rewriting are    *)
(* computed the way the code computes them.                                *)
(***************************************************************************)
EXTENDS Integers, Sequences, FiniteSets, TLC

\* ------------------------------------------------------------------ bounds
\* Number of handler invocations that may run concurrently.
NumInv == 2
\* Number of distinct values Math.random() may yield for a workspace suffix.
MaxRand == 2

Invs == 1..NumInv
Rands == 1..MaxRand

\* ------------------------------------------------------- program constants
BUCKET_NAME == "pdf-to-png"
DESTINATION_BUCKET == "pdf-to-png-output"
\* The orderItemStatus value the completion check filters on.
APPROVED == "-O-MBXnADt_rc_l7Lm8U"
\* Any other orderItemStatus value.
OTHER_STATUS == "other-status"

\* ------------------------------------------------------------ string code
\* String.prototype.toLowerCase, per character, on the alphabet in use.
LowerChar(c) ==
    CASE c = "P" -> "p"
      [] c = "D" -> "d"
      [] c = "F" -> "f"
      [] OTHER -> c

ToLower(s) == [k \in 1..Len(s) |-> LowerChar(s[k])]

\* s.endsWith(suf)
EndsWith(s, suf) ==
    /\ Len(s) >= Len(suf)
    /\ SubSeq(s, Len(s) - Len(suf) + 1, Len(s)) = suf

DotPdf == <<".", "p", "d", "f">>
DotPng == <<".", "p", "n", "g">>

\* A mutant of IsPdf: '.pdf' is looked for anywhere in the key.
IsPdfIncludes(filePath) ==
    \E k \in 1..Len(filePath) :
        /\ k + 3 <= Len(filePath)
        /\ SubSeq(ToLower(filePath), k, k + 3) = DotPdf

\* filePath.toLowerCase().endsWith('.pdf')
IsPdf(filePath) == EndsWith(ToLower(filePath), DotPdf)

\* filePath.replace(/\.pdf$/i, '.png'): only a match at the end of the string.
ReplacePdfSuffix(filePath) ==
    IF EndsWith(ToLower(filePath), DotPdf)
    THEN SubSeq(filePath, 1, Len(filePath) - 4) \o DotPng
    ELSE filePath

\* filePath.split('/').pop(): the text after the last '/'.
LastSegment(filePath) ==
    LET slashes == {k \in 1..Len(filePath) : filePath[k] = "/"}
        last == IF slashes = {} THEN 0
                ELSE CHOOSE k \in slashes : \A m \in slashes : m <= k
    IN SubSeq(filePath, last + 1, Len(filePath))

\* A mutant of NewFilePath: the destination is derived from the local file,
\* which carries the last path segment only.
NewFilePathFromLocal(filePath) == ReplacePdfSuffix(LastSegment(filePath))

\* A mutant of NewFilePath: the image is stored under the key of the PDF.
NewFilePathKeep(filePath) == filePath

\* const newFilePath = filePath.replace(/\.pdf$/i, '.png')
NewFilePath(filePath) == ReplacePdfSuffix(filePath)

\* `${tempDir}/${filePath.split('/').pop()}`: the local PDF, as <<directory,
\* file name>>.
LocalPdfPath(dir, filePath) == <<dir, LastSegment(filePath)>>

\* pdfPath.replace(/\.pdf$/i, '.png'): the local image.
LocalPngPath(dir, filePath) == <<dir, ReplacePdfSuffix(LastSegment(filePath))>>

\* filePath.replace(/\//g, '_').replace(/\./g, '_')
SafeName(filePath) ==
    [k \in 1..Len(filePath) |->
        IF filePath[k] \in {"/", "."} THEN "_" ELSE filePath[k]]

\* Position of the first ')' of s at or after position from, 0 when none.
FirstClose(s, from) ==
    LET closes == {k \in from..Len(s) : s[k] = ")"}
    IN IF closes = {} THEN 0
       ELSE CHOOSE k \in closes : \A m \in closes : k <= m

\* Whether /\(([^)]+)\)\(([^)]+)\)/ matches with its '(' at position p:
\* group 1 runs to the first ')' after p and is non-empty, a '(' follows
\* that ')' at once, and group 2 runs to the next ')' and is non-empty.
MatchesAt(s, p) ==
    /\ s[p] = "("
    /\ LET j == FirstClose(s, p + 1)
       IN /\ j > p + 1
          /\ j + 1 <= Len(s)
          /\ s[j + 1] = "("
          /\ FirstClose(s, j + 2) > j + 2

NoMatch == <<>>

\* A mutant of Match: the last place the pattern matches at is taken.
MatchRightmost(s) ==
    LET starts == {p \in 1..Len(s) : MatchesAt(s, p)}
    IN IF starts = {} THEN NoMatch
       ELSE LET p == CHOOSE q \in starts : \A r \in starts : r <= q
                j == FirstClose(s, p + 1)
                k == FirstClose(s, j + 2)
            IN <<SubSeq(s, p + 1, j - 1), SubSeq(s, j + 2, k - 1)>>

\* A mutant of Match: the groups may be empty ([^)]* instead of [^)]+).
MatchAllowEmpty(s) ==
    LET ok(p) == /\ s[p] = "("
                 /\ LET j == FirstClose(s, p + 1)
                    IN /\ j >= p + 1
                       /\ j + 1 <= Len(s)
                       /\ s[j + 1] = "("
                       /\ FirstClose(s, j + 2) >= j + 2
        starts == {p \in 1..Len(s) : ok(p)}
    IN IF starts = {} THEN NoMatch
       ELSE LET p == CHOOSE q \in starts : \A r \in starts : q <= r
                j == FirstClose(s, p + 1)
                k == FirstClose(s, j + 2)
            IN <<SubSeq(s, p + 1, j - 1), SubSeq(s, j + 2, k - 1)>>

\* filePath.match(/\(([^)]+)\)\(([^)]+)\)/): NoMatch for null, otherwise
\* <<match[1], match[2]>> of the leftmost match.
Match(s) ==
    LET starts == {p \in 1..Len(s) : MatchesAt(s, p)}
    IN IF starts = {} THEN NoMatch
       ELSE LET p == CHOOSE q \in starts : \A r \in starts : q <= r
                j == FirstClose(s, p + 1)
                k == FirstClose(s, j + 2)
            IN <<SubSeq(s, p + 1, j - 1), SubSeq(s, j + 2, k - 1)>>

OrderIdOf(filePath) == Match(filePath)[1]
OrderItemIdOf(filePath) == Match(filePath)[2]

\* if (orderId && orderItemId): both strings are non-empty.
HasIds(filePath) ==
    OrderIdOf(filePath) # <<>> /\ OrderItemIdOf(filePath) # <<>>

\* ------------------------------------------------------------------ inputs
\* The object keys events carry.
KeyDirX1 == <<"d", "/", "(", "X", ")", "(", "1", ")", ".", "p", "d", "f">>
KeyX2Upper == <<"(", "X", ")", "(", "2", ")", ".", "P", "D", "F">>
KeyY1 == <<"(", "Y", ")", "(", "1", ")", ".", "p", "d", "f">>
KeyNoPattern == <<"a", ".", "p", "d", "f">>
KeyEmptyGroup == <<"(", ")", "(", "1", ")", ".", "p", "d", "f">>
KeyPdfPng == <<"a", ".", "p", "d", "f", ".", "p", "n", "g">>
KeyPatternPng == <<"(", "X", ")", "(", "1", ")", ".", "p", "n", "g">>

Keys == {KeyDirX1, KeyX2Upper, KeyY1, KeyNoPattern, KeyEmptyGroup, KeyPdfPng,
         KeyPatternPng}

\* Longest stem of the keys that are enumerated exhaustively.
MaxKeyLen == 8

KeyAlphabet == {"(", ")", "/"}
KeyStems == UNION {[1..n -> KeyAlphabet] : n \in 0..MaxKeyLen}
KeySuffixes == {DotPdf, <<".", "P", "d", "F">>, DotPng}
KeyInDirPdf == <<"a", ".", "p", "d", "f", "/", "a", ".", "p", "d", "f">>

\* Every stem over the alphabet with every suffix, and the keys above.
BoundedKeys ==
    {stem \o suf : stem \in KeyStems, suf \in KeySuffixes}
    \cup Keys \cup {KeyInDirPdf}

OrderIds == {<<"X">>, <<"Y">>}
ItemIds == {<<"1">>, <<"2">>}

\* Request bodies of the push endpoint: no message, a message without data,
\* data that is not JSON, JSON without a name, and a finalize event.
PushBodies ==
    {[kind |-> k, name |-> <<>>] : k \in {"nomsg", "nodata", "badjson", "noname"}}
    \cup {[kind |-> "event", name |-> k] : k \in Keys}

\* ------------------------------------------------------- the record store
NoField == <<>>
Absent == [exists |-> FALSE, order |-> NoField, status |-> NoField,
           pngExtracted |-> FALSE]

Records ==
    {Absent} \cup
    [exists : {TRUE}, order : OrderIds, status : {APPROVED, OTHER_STATUS},
     pngExtracted : BOOLEAN]

\* The stores an event may find.  Item 1 is missing or an unextracted item
\* of order X; item 2 is missing or an item of order X or Y, already
\* extracted only as an approved item of order X.
InitStores ==
    {st \in [ItemIds -> Records] :
        /\ st[<<"1">>].exists =>
              st[<<"1">>].order = <<"X">> /\ ~st[<<"1">>].pngExtracted
        /\ st[<<"2">>].pngExtracted =>
              st[<<"2">>].order = <<"X">> /\ st[<<"2">>].status = APPROVED}

\* A mutant of Updated: the write is lost.
UpdatedLost(st, id) == st

\* A mutant of Updated: the flag of a record is written as the negation of
\* what the record holds.
UpdatedToggle(st, id) ==
    IF st[id].exists
    THEN [st EXCEPT ![id].pngExtracted = ~@]
    ELSE [st EXCEPT ![id] = [exists |-> TRUE, order |-> NoField,
                             status |-> NoField, pngExtracted |-> TRUE]]

\* orderItems.child(id).update({ pngExtracted: true }): sets the one field,
\* and thereby creates the node when there is none.
Updated(st, id) ==
    IF st[id].exists
    THEN [st EXCEPT ![id].pngExtracted = TRUE]
    ELSE [st EXCEPT ![id] = [exists |-> TRUE, order |-> NoField,
                             status |-> NoField, pngExtracted |-> TRUE]]

\* orderItems.orderByChild('order').equalTo(orderId).once('value'): the
\* records whose order field equals orderId; empty stands for val() = null.
Snapshot(st, orderId) ==
    {[id |-> id, order |-> st[id].order, orderItemStatus |-> st[id].status,
      pngExtracted |-> st[id].pngExtracted] :
        id \in {x \in ItemIds : st[x].exists /\ st[x].order = orderId}}

\* Object.values(orderItems).filter(i => i.orderItemStatus === APPROVED)
ApprovedItems(snapshot) == {r \in snapshot : r.orderItemStatus = APPROVED}

\* A mutant of AllExtracted: the status filter is dropped.
AllExtractedUnfiltered(snapshot) == \A r \in snapshot : r.pngExtracted

\* orderItems.every(item => item.pngExtracted), on the filtered items.
AllExtracted(snapshot) == \A r \in ApprovedItems(snapshot) : r.pngExtracted

\* if (orderItemsSnapshot.val()) { ... if (allExtracted) { axios.post } }
ShouldNotify(snapshot) == snapshot # {} /\ AllExtracted(snapshot)

\* ------------------------------------------------------------------- state
VARIABLES
    pc,         \* where each invocation stands: the await it is suspended at
    variant,    \* "push" (app.post('/')) or "direct" (createImage)
    body,       \* the kind of request body the push endpoint was sent
    filePath,   \* the object key of the event, <<>> before one is read
    tempDir,    \* the workspace the invocation created, NoDir when none
    fs,         \* per deployment, the workspace directories that exist
    store,      \* the orderItems records
    store0,     \* the records as the first event found them
    snap,       \* the snapshot the invocation read
    uploaded,   \* the <<bucket, key>> objects written
    calls,      \* number of webhook calls the invocation issued
    hook,       \* the invocation's webhook call: none, pending, ok, failed
    resp,       \* HTTP status sent, 0 when none
    settled,    \* createImage's promise: pending, resolved, rejected
    steps,      \* the steps the invocation completed, in order
    failedAt    \* the step that threw, "none" when none did

vars == <<pc, variant, body, filePath, tempDir, fs, store, store0, snap, uploaded,
          calls, hook, resp, settled, steps, failedAt>>

NoDir == <<>>
Variants == {"push", "direct"}

Init ==
    /\ pc = [i \in Invs |-> "idle"]
    /\ variant = [i \in Invs |-> "none"]
    /\ body = [i \in Invs |-> "none"]
    /\ filePath = [i \in Invs |-> <<>>]
    /\ tempDir = [i \in Invs |-> NoDir]
    /\ fs = [v \in Variants |-> {}]
    /\ store \in InitStores
    /\ store0 = store
    /\ snap = [i \in Invs |-> {}]
    /\ uploaded = {}
    /\ calls = [i \in Invs |-> 0]
    /\ hook = [i \in Invs |-> "none"]
    /\ resp = [i \in Invs |-> 0]
    /\ settled = [i \in Invs |-> "pending"]
    /\ steps = [i \in Invs |-> <<>>]
    /\ failedAt = [i \in Invs |-> "none"]

\* Invocations are interchangeable: they are started in index order.
MayStart(i) == pc[i] = "idle" /\ \A j \in Invs : j < i => pc[j] # "idle"

\* The values Math.random() may yield next.  Only the equality of two
\* suffixes matters, so a value is drawn that was drawn before or is the
\* least one not drawn yet.
UsedRands == {tempDir[j][2] : j \in {k \in Invs : tempDir[k] # NoDir}}
NextRands == {r \in Rands : \A q \in 1..(r - 1) : q \in UsedRands}

\* The object keys the direct trigger is shown.
DirectKeys == {KeyDirX1, KeyX2Upper, KeyNoPattern, KeyPdfPng}

\* `${os.tmpdir()}/${safeName}_${Math.random()}`
TempDirPath(key, rnd) == <<SafeName(key), rnd>>

\* A mutant of MkdirFails: the directory is made as with { recursive: true },
\* which does not fail on a directory that exists.
MkdirNeverFails(v, path) == FALSE

\* fs.mkdirSync(tempDir) throws EEXIST when the directory exists.
MkdirFails(v, path) == path \in fs[v]

\* ------------------------------------------------------ the push endpoint
\* res.sendStatus(code) / res.status(code).send(...) ending the handler.
Respond(i, code) ==
    /\ resp' = [resp EXCEPT ![i] = code]
    /\ pc' = [pc EXCEPT ![i] = "done"]

\* A mutant of PushCatch: the catch block asks for redelivery.
PushCatch500(i, step) ==
    /\ failedAt' = [failedAt EXCEPT ![i] = step]
    /\ resp' = [resp EXCEPT ![i] = 500]
    /\ pc' = [pc EXCEPT ![i] = "done"]

\* A mutant of PushCatch: the catch block logs the error and sends nothing.
PushCatchSilent(i, step) ==
    /\ failedAt' = [failedAt EXCEPT ![i] = step]
    /\ pc' = [pc EXCEPT ![i] = "done"]
    /\ UNCHANGED resp

\* catch (err) { console.error(...); return res.sendStatus(200) }
PushCatch(i, step) ==
    /\ failedAt' = [failedAt EXCEPT ![i] = step]
    /\ Respond(i, 200)

\* deleteDir(tempDir); return res.status(200).send(...): rimraf.sync either
\* removes the directory or throws into the catch block.
PushFinish(i, done, cleanOk) ==
    /\ fs' = IF cleanOk THEN [fs EXCEPT !["push"] = @ \ {tempDir[i]}] ELSE fs
    /\ steps' = [steps EXCEPT ![i] = IF cleanOk THEN Append(done, "cleanup")
                                     ELSE done]
    /\ IF cleanOk
       THEN failedAt' = failedAt /\ Respond(i, 200)
       ELSE PushCatch(i, "cleanup")

\* The handler from the request to its first await (the download), for
\* request body b and random suffix rnd: the envelope checks, the decoding,
\* the suffix test, the filename pattern and createTempDir.
PushHandle(i, b, rnd) ==
    /\ variant' = [variant EXCEPT ![i] = "push"]
    /\ body' = [body EXCEPT ![i] = b.kind]
    /\ UNCHANGED <<store, store0, snap, uploaded, calls, hook, settled,
                   steps>>
    /\ IF b.kind \in {"nomsg", "nodata"}
       THEN /\ Respond(i, 400)
            /\ UNCHANGED <<filePath, tempDir, fs, failedAt>>
       ELSE IF b.kind = "badjson"
       THEN /\ PushCatch(i, "parse")
            /\ UNCHANGED <<filePath, tempDir, fs>>
       ELSE IF b.kind = "noname"
       THEN /\ PushCatch(i, "name")
            /\ UNCHANGED <<filePath, tempDir, fs>>
       ELSE /\ filePath' = [filePath EXCEPT ![i] = b.name]
            /\ IF ~IsPdf(b.name)
               THEN /\ Respond(i, 200)
                    /\ UNCHANGED <<tempDir, fs, failedAt>>
               ELSE IF Match(b.name) = NoMatch
               THEN /\ Respond(i, 400)
                    /\ UNCHANGED <<tempDir, fs, failedAt>>
               ELSE IF MkdirFails("push", TempDirPath(b.name, rnd))
               THEN /\ PushCatch(i, "mkdir")
                    /\ UNCHANGED <<tempDir, fs>>
               ELSE /\ tempDir' = [tempDir EXCEPT ![i] =
                                      TempDirPath(b.name, rnd)]
                    /\ fs' = [fs EXCEPT !["push"] =
                                 @ \cup {TempDirPath(b.name, rnd)}]
                    /\ pc' = [pc EXCEPT ![i] = "download"]
                    /\ UNCHANGED <<resp, failedAt>>

\* A request reaches the push endpoint.
PushReceive(i) ==
    /\ MayStart(i)
    /\ \E b \in PushBodies, rnd \in NextRands : PushHandle(i, b, rnd)

\* A mutant of PushStep: a rejected step is logged and the handler runs on.
PushStepIgnoreFailure(i, at, next) ==
    /\ pc[i] = at
    /\ variant[i] = "push"
    /\ \E ok \in BOOLEAN :
        /\ steps' = [steps EXCEPT ![i] = IF ok THEN Append(@, at) ELSE @]
        /\ failedAt' = [failedAt EXCEPT ![i] = IF ok THEN @ ELSE at]
        /\ pc' = [pc EXCEPT ![i] = next]
        /\ UNCHANGED resp

\* One awaited transfer or conversion step of the push handler resolving or
\* rejecting: on success the handler runs on to its next await.
PushStep(i, at, next) ==
    /\ pc[i] = at
    /\ variant[i] = "push"
    /\ \E ok \in BOOLEAN :
        IF ok
        THEN /\ steps' = [steps EXCEPT ![i] = Append(@, at)]
             /\ pc' = [pc EXCEPT ![i] = next]
             /\ UNCHANGED <<resp, failedAt>>
        ELSE /\ PushCatch(i, at)
             /\ UNCHANGED steps

\* await downloadPdf(bucketName, filePath, tempDir)
PushDownload(i) ==
    /\ PushStep(i, "download", "convert")
    /\ UNCHANGED <<variant, body, filePath, tempDir, fs, store, store0, snap,
                   uploaded, calls, hook, settled>>

\* await convertPdfToImage(localPdfPath)
PushConvert(i) ==
    /\ PushStep(i, "convert", "upload")
    /\ UNCHANGED <<variant, body, filePath, tempDir, fs, store, store0, snap,
                   uploaded, calls, hook, settled>>

\* await uploadImage(localPngPath, DESTINATION_BUCKET, newFilePath), and
\* the test if (orderId && orderItemId): without identifiers the handler
\* runs on to the end.
PushUpload(i) ==
    /\ pc[i] = "upload"
    /\ variant[i] = "push"
    /\ UNCHANGED <<variant, body, filePath, tempDir, store, store0, snap,
                   calls, hook, settled>>
    /\ \E ok \in BOOLEAN, cleanOk \in BOOLEAN :
        IF ~ok
        THEN /\ PushCatch(i, "upload")
             /\ UNCHANGED <<fs, uploaded, steps>>
        ELSE /\ uploaded' = uploaded \cup
                    {<<DESTINATION_BUCKET, NewFilePath(filePath[i])>>}
             /\ IF HasIds(filePath[i])
                THEN /\ steps' = [steps EXCEPT ![i] = Append(@, "upload")]
                     /\ pc' = [pc EXCEPT ![i] = "update"]
                     /\ UNCHANGED <<fs, resp, failedAt>>
                ELSE PushFinish(i, Append(steps[i], "upload"), cleanOk)

\* await orderItems.child(orderItemId).update({ pngExtracted: true })
PushUpdate(i) ==
    /\ PushStep(i, "update", "query")
    /\ store' = IF pc'[i] = "query"
                THEN Updated(store, OrderItemIdOf(filePath[i]))
                ELSE store
    /\ UNCHANGED <<variant, body, filePath, tempDir, fs, store0, snap, uploaded,
                   calls, hook, settled>>

\* await ...orderByChild('order').equalTo(orderId).once('value'), and the
\* code after it up to the webhook call or, when none is due, to the end.
PushQuery(i) ==
    /\ pc[i] = "query"
    /\ variant[i] = "push"
    /\ UNCHANGED <<variant, body, filePath, tempDir, store, store0, uploaded,
                   settled>>
    /\ \E ok \in BOOLEAN, cleanOk \in BOOLEAN :
        IF ~ok
        THEN /\ PushCatch(i, "query")
             /\ UNCHANGED <<fs, snap, calls, hook, steps>>
        ELSE LET s == Snapshot(store, OrderIdOf(filePath[i]))
             IN /\ snap' = [snap EXCEPT ![i] = s]
                /\ IF ShouldNotify(s)
                   THEN /\ calls' = [calls EXCEPT ![i] = @ + 1]
                        /\ hook' = [hook EXCEPT ![i] = "pending"]
                        /\ steps' = [steps EXCEPT ![i] = Append(@, "query")]
                        /\ pc' = [pc EXCEPT ![i] = "webhook"]
                        /\ UNCHANGED <<fs, resp, failedAt>>
                   ELSE /\ PushFinish(i, Append(steps[i], "query"), cleanOk)
                        /\ UNCHANGED <<calls, hook>>

\* A mutant of PushWebhook: a failed call reaches the outer catch block.
PushWebhookEscalate(i) ==
    /\ pc[i] = "webhook"
    /\ variant[i] = "push"
    /\ UNCHANGED <<variant, body, filePath, tempDir, store, store0, snap,
                   uploaded, calls, settled>>
    /\ \E ok \in BOOLEAN, cleanOk \in BOOLEAN :
        /\ hook' = [hook EXCEPT ![i] = IF ok THEN "ok" ELSE "failed"]
        /\ IF ok
           THEN PushFinish(i, Append(steps[i], "webhook"), cleanOk)
           ELSE PushCatch(i, "webhook") /\ UNCHANGED <<fs, steps>>

\* A mutant of PushWebhook: a failed call is issued once more.
PushWebhookRetry(i) ==
    /\ pc[i] = "webhook"
    /\ variant[i] = "push"
    /\ UNCHANGED <<variant, body, filePath, tempDir, store, store0, snap,
                   uploaded, settled>>
    /\ \E ok \in BOOLEAN, cleanOk \in BOOLEAN :
        IF ~ok /\ calls[i] < 2
        THEN /\ calls' = [calls EXCEPT ![i] = @ + 1]
             /\ UNCHANGED <<pc, fs, hook, resp, steps, failedAt>>
        ELSE /\ calls' = calls
             /\ hook' = [hook EXCEPT ![i] = IF ok THEN "ok" ELSE "failed"]
             /\ PushFinish(i, IF ok THEN Append(steps[i], "webhook")
                                ELSE steps[i], cleanOk)

\* await axios.post(webhook, { order: orderId }) resolving or rejecting; a
\* rejection is caught by the inner try, and the handler runs on to the end.
PushWebhook(i) ==
    /\ pc[i] = "webhook"
    /\ variant[i] = "push"
    /\ UNCHANGED <<variant, body, filePath, tempDir, store, store0, snap, uploaded,
                   calls, settled>>
    /\ \E ok \in BOOLEAN, cleanOk \in BOOLEAN :
        /\ hook' = [hook EXCEPT ![i] = IF ok THEN "ok" ELSE "failed"]
        /\ PushFinish(i, IF ok THEN Append(steps[i], "webhook") ELSE steps[i],
                      cleanOk)

\* ------------------------------------------------------ the direct trigger
\* createImage returning, or an exception leaving it (nothing catches).
Settle(i, how) ==
    /\ settled' = [settled EXCEPT ![i] = how]
    /\ pc' = [pc EXCEPT ![i] = "done"]

\* createImage from the event to its first await: the suffix test and
\* createTempDir.
DirectHandle(i, key, rnd) ==
    /\ variant' = [variant EXCEPT ![i] = "direct"]
    /\ filePath' = [filePath EXCEPT ![i] = key]
    /\ UNCHANGED <<body, store, store0, snap, uploaded, calls, hook, resp,
                   steps>>
    /\ IF ~IsPdf(key)
       THEN /\ Settle(i, "resolved")
            /\ UNCHANGED <<tempDir, fs, failedAt>>
       ELSE IF MkdirFails("direct", TempDirPath(key, rnd))
       THEN /\ Settle(i, "rejected")
            /\ failedAt' = [failedAt EXCEPT ![i] = "mkdir"]
            /\ UNCHANGED <<tempDir, fs>>
       ELSE /\ tempDir' = [tempDir EXCEPT ![i] = TempDirPath(key, rnd)]
            /\ fs' = [fs EXCEPT !["direct"] =
                         @ \cup {TempDirPath(key, rnd)}]
            /\ pc' = [pc EXCEPT ![i] = "download"]
            /\ UNCHANGED <<settled, failedAt>>

\* A finalize event reaches the direct trigger.
DirectReceive(i) ==
    /\ MayStart(i)
    /\ \E key \in DirectKeys, rnd \in NextRands : DirectHandle(i, key, rnd)

\* One awaited step of createImage resolving or rejecting.
DirectStep(i, at, next) ==
    /\ pc[i] = at
    /\ variant[i] = "direct"
    /\ \E ok \in BOOLEAN :
        IF ok
        THEN /\ steps' = [steps EXCEPT ![i] = Append(@, at)]
             /\ pc' = [pc EXCEPT ![i] = next]
             /\ UNCHANGED <<settled, failedAt>>
        ELSE /\ Settle(i, "rejected")
             /\ failedAt' = [failedAt EXCEPT ![i] = at]
             /\ UNCHANGED steps

\* await downloadPdf(bucketName, tempDir, filePath)
DirectDownload(i) ==
    /\ DirectStep(i, "download", "convert")
    /\ UNCHANGED <<variant, body, filePath, tempDir, fs, store, store0, snap,
                   uploaded, calls, hook, resp>>

\* await convertPdfToImage(tmpPdfPath)
DirectConvert(i) ==
    /\ DirectStep(i, "convert", "upload")
    /\ UNCHANGED <<variant, body, filePath, tempDir, fs, store, store0, snap,
                   uploaded, calls, hook, resp>>

\* await uploadImage(tmpPngPath, bucketName, newFilePath); deleteDir(tempDir)
DirectUpload(i) ==
    /\ pc[i] = "upload"
    /\ variant[i] = "direct"
    /\ UNCHANGED <<variant, body, filePath, tempDir, store, store0, snap, calls,
                   hook, resp>>
    /\ \E ok \in BOOLEAN, cleanOk \in BOOLEAN :
        IF ~ok
        THEN /\ Settle(i, "rejected")
             /\ failedAt' = [failedAt EXCEPT ![i] = "upload"]
             /\ UNCHANGED <<fs, uploaded, steps>>
        ELSE /\ uploaded' = uploaded \cup
                    {<<BUCKET_NAME, NewFilePath(filePath[i])>>}
             /\ IF cleanOk
                THEN /\ fs' = [fs EXCEPT !["direct"] = @ \ {tempDir[i]}]
                     /\ steps' = [steps EXCEPT ![i] =
                                     @ \o <<"upload", "cleanup">>]
                     /\ Settle(i, "resolved")
                     /\ UNCHANGED failedAt
                ELSE /\ steps' = [steps EXCEPT ![i] = Append(@, "upload")]
                     /\ Settle(i, "rejected")
                     /\ failedAt' = [failedAt EXCEPT ![i] = "cleanup"]
                     /\ UNCHANGED fs

\* ------------------------------------------- one event with any bounded key
\* The records are of no concern: no record exists and the pipeline is
\* followed up to the datastore part.
KeyInit ==
    /\ Init
    /\ store = [id \in ItemIds |-> Absent]

\* The push endpoint receives a finalize event for any bounded key.
KeyPushReceive ==
    /\ pc[1] = "idle"
    /\ \E k \in BoundedKeys, rnd \in NextRands :
        PushHandle(1, [kind |-> "event", name |-> k], rnd)

\* The direct trigger receives a finalize event for any bounded key.
KeyDirectReceive ==
    /\ pc[1] = "idle"
    /\ \E k \in BoundedKeys, rnd \in NextRands : DirectHandle(1, k, rnd)

\* The object a createImage invocation wrote into the bucket it listens
\* on raises a finalize event of its own, which starts createImage.
DirectFinalize(i) ==
    /\ i > 1
    /\ MayStart(i)
    /\ \E obj \in uploaded, rnd \in NextRands :
        /\ obj[1] = BUCKET_NAME
        /\ DirectHandle(i, obj[2], rnd)

KeyNext ==
    \/ KeyPushReceive
    \/ KeyDirectReceive
    \/ PushDownload(1)
    \/ PushConvert(1)
    \/ PushUpload(1)
    \/ \E i \in Invs :
        \/ DirectFinalize(i)
        \/ DirectDownload(i)
        \/ DirectConvert(i)
        \/ DirectUpload(i)

KeySpec == KeyInit /\ [][KeyNext]_vars

\* ----------------------------------------------------------- specification
Next ==
    \E i \in Invs :
        \/ PushReceive(i)
        \/ PushDownload(i)
        \/ PushConvert(i)
        \/ PushUpload(i)
        \/ PushUpdate(i)
        \/ PushQuery(i)
        \/ PushWebhook(i)
        \/ DirectReceive(i)
        \/ DirectDownload(i)
        \/ DirectConvert(i)
        \/ DirectUpload(i)

Spec == Init /\ [][Next]_vars

\* An awaited step of the push handler that is pending.
PushAwait(i) ==
    \/ PushDownload(i)
    \/ PushConvert(i)
    \/ PushUpload(i)
    \/ PushUpdate(i)
    \/ PushQuery(i)
    \/ PushWebhook(i)

\* Every awaited step of the push handler resolves or rejects in the end:
\* the promise of a pending step is settled by its collaborator.
FairSpec == Spec /\ \A i \in Invs : WF_vars(PushAwait(i))

\* ------------------------------------------------------------- properties
Range(f) == {f[k] : k \in DOMAIN f}

\* The invocation has finished: it has responded or its promise is settled.
Finished(i) == pc[i] = "done"

\* The invocation created a workspace directory.
CreatedWorkspace(i) == tempDir[i] # NoDir

\* The invocation handles a key that carries the identifiers of order o.
Carries(i, o) ==
    /\ variant[i] = "push"
    /\ filePath[i] # <<>>
    /\ Match(filePath[i]) # NoMatch
    /\ OrderIdOf(filePath[i]) = o

RECURSIVE SumCalls(_)
SumCalls(S) ==
    IF S = {} THEN 0
    ELSE LET i == CHOOSE j \in S : TRUE IN calls[i] + SumCalls(S \ {i})

\* Number of webhook calls issued with order id o.
WebhookCalls(o) == SumCalls({i \in Invs : Carries(i, o)})

\* C1 (as claimed): every invocation that created a workspace has deleted
\* it by the time it finishes, on every exit path.
C1_WorkspaceDeletedOnEveryExit ==
    \A i \in Invs :
        (Finished(i) /\ CreatedWorkspace(i)) => tempDir[i] \notin fs[variant[i]]

\* C2 (as claimed): no more than one webhook call carries a given order id.
C2_AtMostOneWebhookPerOrder ==
    \A o \in OrderIds : WebhookCalls(o) <= 1

\* C2 (amended): an invocation issues at most one webhook call, and only
\* after its sibling query resolved; so the calls carrying an order id are
\* at most as many as the invocations that handled an item of that order
\* and read its records.
C2_AtMostOneWebhookPerInvocation ==
    /\ \A i \in Invs :
        /\ calls[i] <= 1
        /\ calls[i] = 1 => (variant[i] = "push" /\ "query" \in Range(steps[i]))
    /\ \A o \in OrderIds :
        WebhookCalls(o) <=
            Cardinality({i \in Invs : Carries(i, o) /\ "query" \in Range(steps[i])})

\* Two invocations have each issued a webhook call with the same order id.
C2_Witness ==
    \E i, j \in Invs :
        /\ i # j
        /\ calls[i] = 1 /\ calls[j] = 1
        /\ OrderIdOf(filePath[i]) = OrderIdOf(filePath[j])

\* C3 (as claimed): a webhook call is issued only when the snapshot holds
\* at least one record with the approved status.
C3_NoWebhookWithoutApprovedItem ==
    \A i \in Invs :
        calls[i] > 0 => \E r \in snap[i] : r.orderItemStatus = APPROVED

\* C4: once the sibling query of an invocation has resolved, the invocation
\* has issued a webhook call exactly when its snapshot is not null and holds
\* no approved record with pngExtracted false; the snapshot holds records of
\* the key's order only, with the invocation's own item already extracted.
C4_WebhookIffApprovedAllExtracted ==
    \A i \in Invs :
        "query" \in Range(steps[i]) =>
            /\ \A r \in snap[i] :
                /\ r.order = OrderIdOf(filePath[i])
                /\ r.id = OrderItemIdOf(filePath[i]) => r.pngExtracted
            /\ (\E r \in snap[i] :
                    r.orderItemStatus = APPROVED /\ ~r.pngExtracted)
                  => calls[i] = 0
            /\ (/\ snap[i] # {}
                /\ \A r \in snap[i] :
                      r.orderItemStatus = APPROVED => r.pngExtracted)
                  => calls[i] = 1

\* An invocation issued a webhook call although its snapshot holds a record
\* of another status that is not extracted, beside an approved one.
C4_Witness ==
    \E i \in Invs :
        /\ calls[i] = 1
        /\ \E r \in snap[i] : r.orderItemStatus = APPROVED
        /\ \E r \in snap[i] : r.orderItemStatus # APPROVED /\ ~r.pngExtracted

\* C5 (as claimed): the store holds the records it held at the start, and
\* no field of a record other than pngExtracted has changed.
C5_OnlyFlagOfExistingRecordsChanges ==
    \A id \in ItemIds :
        /\ store[id].exists = store0[id].exists
        /\ store[id].order = store0[id].order
        /\ store[id].status = store0[id].status

\* The key ends in '.pdf' in some mix of cases.
EndsInPdf(s) ==
    /\ Len(s) >= 4
    /\ s[Len(s) - 3] = "."
    /\ s[Len(s) - 2] \in {"p", "P"}
    /\ s[Len(s) - 1] \in {"d", "D"}
    /\ s[Len(s)] \in {"f", "F"}

\* The key holds two adjacent parenthesised groups, both non-empty.
ContainsPair(s) ==
    \E a, b, c \in 1..Len(s) :
        /\ a + 1 < b /\ b + 2 < c
        /\ s[a] = "(" /\ s[b] = ")" /\ s[b + 1] = "(" /\ s[c] = ")"
        /\ \A k \in (a + 1)..(b - 1) : s[k] # ")"
        /\ \A k \in (b + 2)..(c - 1) : s[k] # ")"

\* The push endpoint was sent an input error: no message, no data, or a
\* .pdf key without the identifier pattern.
InputError(i) ==
    /\ variant[i] = "push"
    /\ \/ body[i] \in {"nomsg", "nodata"}
       \/ /\ body[i] = "event"
          /\ EndsInPdf(filePath[i])
          /\ ~ContainsPair(filePath[i])

\* C6: a finished push invocation has answered 200 or 400, and 400 exactly
\* when the message or its data was missing or a .pdf key lacked the
\* identifier pattern.
C6_Status400OnlyForInputErrors ==
    \A i \in Invs :
        (variant[i] = "push" /\ Finished(i)) =>
            /\ resp[i] \in {200, 400}
            /\ resp[i] = 400 <=> InputError(i)

\* A push invocation whose cleanup threw has answered 200.
C6_Witness ==
    \E i \in Invs :
        /\ variant[i] = "push" /\ Finished(i)
        /\ failedAt[i] = "cleanup" /\ resp[i] = 200

\* C7: a push invocation that receives an input error ends in the same step
\* with status 400, without a workspace, without a completed or failed
\* step, and with the directories, the records, the uploaded objects and
\* the webhook calls as they were.
C7_InputErrorHasNoSideEffects ==
    [][\A i \in Invs :
          (pc[i] = "idle" /\ InputError(i)') =>
              /\ pc'[i] = "done" /\ resp'[i] = 400
              /\ tempDir'[i] = NoDir
              /\ steps'[i] = <<>> /\ failedAt'[i] = "none"
              /\ UNCHANGED <<fs, store, uploaded, calls, hook>>]_vars

\* A .pdf key with an empty first group was rejected.
C7_Witness ==
    \E i \in Invs :
        /\ variant[i] = "push" /\ Finished(i)
        /\ filePath[i] = KeyEmptyGroup /\ resp[i] = 400

\* C8: in both variants an invocation that receives a key not ending in
\* .pdf (in any case) ends in the same step, without a workspace, without a
\* completed or failed step, and with the directories, the records, the
\* uploaded objects and the webhook calls as they were.
C8_NonPdfExitsEarly ==
    [][\A i \in Invs :
          (pc[i] = "idle" /\ filePath'[i] # <<>> /\ ~EndsInPdf(filePath'[i])) =>
              /\ pc'[i] = "done"
              /\ tempDir'[i] = NoDir
              /\ steps'[i] = <<>> /\ failedAt'[i] = "none"
              /\ UNCHANGED <<fs, store, uploaded, calls, hook>>]_vars

\* Both variants have ignored a key that is not a PDF.
C8_Witness ==
    \E i, j \in Invs :
        /\ variant[i] = "push" /\ Finished(i) /\ filePath[i] = KeyPatternPng
        /\ variant[j] = "direct" /\ Finished(j) /\ filePath[j] = KeyPdfPng

Transfers == <<"download", "convert", "upload">>

\* The invocation has reached the datastore part of the pipeline.
ReachedDatastore(i) ==
    \/ pc[i] \in {"update", "query", "webhook"}
    \/ Range(steps[i]) \cap {"update", "query", "webhook"} # {}
    \/ failedAt[i] \in {"update", "query"}
    \/ snap[i] # {}
    \/ calls[i] > 0

\* C9: an invocation whose download, conversion or upload failed has
\* finished without a datastore write, a sibling query or a webhook call;
\* an invocation that reached the datastore part completed download,
\* conversion and upload first, in that order; and the records change only
\* in the update step of such an invocation.
C9_TransferFailureAbortsPipeline ==
    /\ [](\A i \in Invs :
            /\ failedAt[i] \in Range(Transfers) =>
                  (Finished(i) /\ ~ReachedDatastore(i))
            /\ ReachedDatastore(i) =>
                  (Len(steps[i]) >= 3 /\ SubSeq(steps[i], 1, 3) = Transfers))
    /\ [][store' # store =>
             \E i \in Invs :
                 /\ pc[i] = "update" /\ pc'[i] = "query"
                 /\ steps[i] = Transfers
                 /\ failedAt[i] = "none"]_vars

\* One invocation stopped at a failed conversion, another wrote its flag.
C9_Witness ==
    \E i, j \in Invs :
        /\ failedAt[i] = "convert" /\ Finished(i)
        /\ "update" \in Range(steps[j])

\* C10: the step in which a webhook call fails issues no further call,
\* ends the invocation with status 200, leaves the records as they are,
\* with the invocation's flag true, and removes the workspace unless the
\* removal itself throws; the flag stays true from then on.
C10_WebhookFailureSwallowed ==
    /\ [][\A i \in Invs :
            (hook[i] = "pending" /\ hook'[i] = "failed") =>
                /\ calls' = calls /\ calls[i] = 1
                /\ pc'[i] = "done" /\ resp'[i] = 200
                /\ store' = store
                /\ \/ tempDir[i] \notin fs'["push"]
                   \/ failedAt'[i] = "cleanup"]_vars
    /\ [](\A i \in Invs :
            hook[i] = "failed" =>
                /\ Finished(i) /\ calls[i] = 1 /\ resp[i] = 200
                /\ store[OrderItemIdOf(filePath[i])].pngExtracted)

\* A webhook call has failed and the invocation has removed its workspace.
C10_Witness ==
    \E i \in Invs :
        /\ hook[i] = "failed" /\ Finished(i)
        /\ failedAt[i] = "none"
        /\ tempDir[i] \notin fs["push"]

\* The ids of the approved records of order o.
ApprovedOf(o) ==
    {id \in ItemIds :
        store[id].exists /\ store[id].order = o /\ store[id].status = APPROVED}

\* A push invocation handled item id of order o and no step of it failed
\* up to and including its sibling query.
HandledOk(id, o) ==
    \E i \in Invs :
        /\ Carries(i, o)
        /\ OrderItemIdOf(filePath[i]) = id
        /\ "query" \in Range(steps[i])

\* C11: when an order has an approved item and every approved item of it
\* has been handled by a push invocation whose steps up to the sibling
\* query succeeded, at least one webhook call with that order id has been
\* issued, whatever the interleaving.
C11_AtLeastOneWebhookWhenAllHandled ==
    \A o \in OrderIds :
        (ApprovedOf(o) # {} /\ \A id \in ApprovedOf(o) : HandledOk(id, o))
            => WebhookCalls(o) >= 1

\* Two approved items of one order were handled by two invocations whose
\* flag writes both came before either query, and a call was issued.
C11_Witness ==
    \E o \in OrderIds :
        /\ Cardinality(ApprovedOf(o)) = 2
        /\ \A id \in ApprovedOf(o) : ~store0[id].pngExtracted
        /\ \A id \in ApprovedOf(o) : HandledOk(id, o)
        /\ WebhookCalls(o) >= 1

\* The invocation is running: it has started and has not finished.
Running(i) == pc[i] \notin {"idle", "done"}

\* C12: two invocations that are running in the same deployment at the
\* same time never hold the same workspace path.
C12_WorkspaceNeverShared ==
    \A i, j \in Invs :
        (i # j /\ Running(i) /\ Running(j) /\ variant[i] = variant[j])
            => tempDir[i] # tempDir[j]

\* Of two deliveries of the same key that drew the same suffix, one is
\* running in the workspace and the other was refused the directory.
C12_Witness ==
    \E i, j \in Invs :
        /\ i # j /\ variant[i] = variant[j] /\ filePath[i] = filePath[j]
        /\ Running(i) /\ tempDir[i] # NoDir
        /\ failedAt[j] = "mkdir"
        /\ tempDir[i] \in fs[variant[i]]

\* Positions a < b < c of s delimit two adjacent parenthesised groups,
\* '(' at a, ')(' at b and ')' at c, both non-empty and free of ')'.
PairAt(s, a, b, c) ==
    /\ a + 1 < b /\ b + 2 < c /\ c <= Len(s)
    /\ s[a] = "(" /\ s[b] = ")" /\ s[b + 1] = "(" /\ s[c] = ")"
    /\ \A k \in (a + 1)..(b - 1) : s[k] # ")"
    /\ \A k \in (b + 2)..(c - 1) : s[k] # ")"

\* Some adjacent pair of non-empty groups starts at position a.
PairStartsAt(s, a) ==
    \E b \in (a + 2)..Len(s) : \E c \in (b + 3)..Len(s) : PairAt(s, a, b, c)

\* C13: for every key an invocation received, the parser yields nothing
\* exactly when the key holds no adjacent pair of non-empty parenthesised
\* groups, and otherwise the contents of the leftmost such pair, both
\* non-empty; a push invocation gets past the pattern test and on to the
\* status update only with two non-empty identifiers.
C13_ParseYieldsNoneOrTwoNonEmptyIds ==
    \A i \in Invs :
        filePath[i] # <<>> =>
            LET s == filePath[i]
                m == Match(s)
            IN /\ m = NoMatch <=> ~\E a \in 1..Len(s) : PairStartsAt(s, a)
               /\ m # NoMatch =>
                    /\ Len(m) = 2 /\ m[1] # <<>> /\ m[2] # <<>>
                    /\ \E a \in 1..Len(s) : \E b \in (a + 2)..Len(s) :
                       \E c \in (b + 3)..Len(s) :
                        /\ PairAt(s, a, b, c)
                        /\ \A a2 \in 1..(a - 1) : ~PairStartsAt(s, a2)
                        /\ m = <<SubSeq(s, a + 1, b - 1), SubSeq(s, b + 2, c - 1)>>
               /\ (variant[i] = "push" /\ (Running(i) \/ steps[i] # <<>>)) =>
                    /\ \E a \in 1..Len(s) : PairStartsAt(s, a)
                    /\ OrderIdOf(s) # <<>> /\ OrderItemIdOf(s) # <<>>

\* A key whose first pair of groups has an empty group and whose next pair
\* has none reached the status update with the identifiers of that pair.
C13_Witness ==
    /\ variant[1] = "push"
    /\ pc[1] = "update"
    /\ SubSeq(filePath[1], 1, 8) = <<"(", ")", "(", "/", ")", "(", "/", ")">>
    /\ Match(filePath[1]) = << <<"/">>, <<"/">> >>

\* The bucket an invocation of the variant uploads to.
UploadBucket(v) == IF v = "push" THEN DESTINATION_BUCKET ELSE BUCKET_NAME

\* Key k is key s with its last four characters replaced by '.png'.
IsPngTwin(k, s) ==
    /\ Len(s) >= 4 /\ Len(k) = Len(s)
    /\ \A n \in 1..(Len(s) - 4) : k[n] = s[n]
    /\ k[Len(k) - 3] = "." /\ k[Len(k) - 2] = "p"
    /\ k[Len(k) - 1] = "n" /\ k[Len(k)] = "g"

\* C14: an invocation whose upload succeeded was given a key ending in
\* .pdf in some case and has stored the image under that key with only the
\* last four characters replaced by .png, directory prefix included, while
\* its local image carries the part of that key after the last '/' alone;
\* and every stored object is the image of such an invocation.
C14_OutputKeyIsInputKeyWithPngSuffix ==
    /\ \A i \in Invs :
        "upload" \in Range(steps[i]) =>
            /\ EndsInPdf(filePath[i])
            /\ \E obj \in uploaded :
                /\ obj[1] = UploadBucket(variant[i])
                /\ IsPngTwin(obj[2], filePath[i])
                /\ LET name == LocalPngPath(tempDir[i], filePath[i])[2]
                   IN /\ \A n \in 1..Len(name) : name[n] # "/"
                      /\ EndsWith(obj[2], name)
                      /\ \/ Len(name) = Len(obj[2])
                         \/ obj[2][Len(obj[2]) - Len(name)] = "/"
    /\ \A obj \in uploaded :
        \E i \in Invs :
            /\ "upload" \in Range(steps[i])
            /\ obj[1] = UploadBucket(variant[i])
            /\ IsPngTwin(obj[2], filePath[i])

\* A key in a directory, with a mixed-case suffix, was converted and stored
\* by the push endpoint under the directory.
C14_Witness ==
    \E obj \in uploaded :
        /\ obj[1] = DESTINATION_BUCKET
        /\ variant[1] = "push"
        /\ EndsWith(filePath[1], <<".", "P", "d", "F">>)
        /\ \E n \in 1..Len(filePath[1]) : filePath[1][n] = "/"
        /\ \E n \in 1..Len(obj[2]) : obj[2][n] = "/"
        /\ IsPngTwin(obj[2], filePath[1])

\* C15: every request to the push endpoint is answered, whichever awaited
\* steps reject, provided every awaited step resolves or rejects in the end;
\* the handler is over once it has answered, and the answer it has sent is
\* its only one: no later step sends another or changes it.
C15_EveryPushRequestAnsweredOnce ==
    /\ \A i \in Invs :
        (variant[i] = "push") ~> (Finished(i) /\ resp[i] # 0)
    /\ [](\A i \in Invs :
            /\ variant[i] = "push" /\ Finished(i) => resp[i] # 0
            /\ resp[i] # 0 => Finished(i))
    /\ [][\A i \in Invs : resp[i] # 0 => resp'[i] = resp[i]]_vars

\* One request was answered after its download had failed, another after
\* its webhook call had failed.
C15_Witness ==
    /\ variant[1] = "push" /\ failedAt[1] = "download"
    /\ Finished(1) /\ resp[1] = 200
    /\ variant[2] = "push" /\ hook[2] = "failed"
    /\ Finished(2) /\ resp[2] = 200

\* The invocations that ran the conversion to its end.
Conversions == {i \in Invs : "convert" \in Range(steps[i])}

\* C16: the object the direct trigger writes back into the bucket it
\* listens on is never a PDF, and the invocation its finalize event starts
\* returns at the suffix test, having created no workspace and run no step:
\* one uploaded PDF is converted once and no chain of events follows.
C16_DirectTriggerDoesNotRetrigger ==
    /\ \A obj \in uploaded :
        obj[1] = BUCKET_NAME => /\ ~IsPdf(obj[2])
                                /\ EndsWith(obj[2], DotPng)
    /\ \A i \in Invs :
        i > 1 /\ variant[i] = "direct" =>
            /\ ~IsPdf(filePath[i])
            /\ Finished(i) /\ settled[i] = "resolved"
            /\ steps[i] = <<>> /\ tempDir[i] = NoDir
            /\ failedAt[i] = "none"
    /\ Cardinality(Conversions) <= 1
    /\ Cardinality({obj \in uploaded : obj[1] = BUCKET_NAME}) <= 1

\* The direct trigger converted a PDF and stored the image, and the
\* finalize event of the image was received and ignored.
C16_Witness ==
    /\ variant[1] = "direct" /\ Finished(1) /\ settled[1] = "resolved"
    /\ Conversions = {1}
    /\ <<BUCKET_NAME, NewFilePath(filePath[1])>> \in uploaded
    /\ variant[2] = "direct" /\ Finished(2)
    /\ filePath[2] = NewFilePath(filePath[1])
    /\ steps[2] = <<>>

\* C17: no step of any invocation sets a pngExtracted flag that is true
\* back to false, so a flag that was true when the first event arrived, or
\* has become true since, is true in every later state, whether the
\* invocation that set it fails afterwards or the event is delivered again.
C17_PngExtractedMonotonic ==
    /\ [](\A id \in ItemIds :
            store0[id].pngExtracted => store[id].pngExtracted)
    /\ [][\A id \in ItemIds :
            store[id].pngExtracted => store'[id].pngExtracted]_vars

\* The same event was delivered twice and wrote the flag twice, the second
\* invocation failing at the sibling query; the flag, false at first, holds.
C17_Witness ==
    /\ variant[1] = "push" /\ variant[2] = "push"
    /\ filePath[1] = filePath[2]
    /\ "update" \in Range(steps[1]) /\ "update" \in Range(steps[2])
    /\ failedAt[2] = "query" /\ Finished(2)
    /\ store0[OrderItemIdOf(filePath[1])].exists
    /\ ~store0[OrderItemIdOf(filePath[1])].pngExtracted
    /\ store[OrderItemIdOf(filePath[1])].pngExtracted

====
